---- MODULE Spec2Model ----
(***************************************************************************)
(* Model of agno-reclamAI.  The FAISS knowledge subsystem:                 *)
(* rag_system.py (class SistemaRAG, inicializar_rag, obter_contexto_rag).  *)
(*                                                                         *)
(* One SistemaRAG instance (the module-level singleton sistema_rag) is     *)
(* shared by a maintenance thread, which calls carregar_documentos,        *)
(* criar_indice, salvar_indice, carregar_indice and inicializar_rag, and   *)
(* by a query thread, which calls buscar_contexto / obter_contexto_rag.    *)
(* The methods take no lock, so the threads interleave between the         *)
(* statements of a method.  The process may die at any point; the files    *)
(* keep what had been written by then.                                     *)
(*                                                                         *)
(* Spec     : the maintenance thread alone, in a process that may die and  *)
(*            be started again.                                            *)
(* SpecConc : the maintenance thread and the query thread together, in a   *)
(*            process that stays alive.                                    *)
(* SpecRT   : a built instance is saved, the process is started again and  *)
(*            the files are loaded.                                        *)
(* All are behaviours of the same program: every action is shared.         *)
(*                                                                         *)
(* SpecChunk: carregar_documentos applied to every FAQ text.               *)
(*                                                                         *)
(* The other components of the application keep their own state:           *)
(* SpecKnow : agno_knowledge.py, adicionar_faq and the query path of       *)
(*            SistemaKnowledgeAgnos; the library calls either return or    *)
(*            raise.                                                       *)
(* SpecCtx  : the two context paths, obter_contexto_rag and                *)
(*            obter_contexto_formatado, on stores that are not changing.   *)
(* SpecHist : base_historico.py, the writes of BaseHistorico, with a       *)
(*            clock of one-second resolution.                              *)
(* SpecHistQ: the same with the reads obter_historico and                  *)
(*            obter_contexto_historico.                                    *)
(* SpecTime : a run of the Team of agents.py through its pre_hooks         *)
(*            guardrails.                                                  *)
(*                                                                         *)
(* A chunk text is a number 1..NumTexts.  A paragraph of the FAQ file is   *)
(* 0, a paragraph holding white space only, a chunk text t, or             *)
(* NumTexts + t, the text t with white space around it.  An embedding is   *)
(* a one-dimensional integer vector.                                       *)
(***************************************************************************)
EXTENDS Integers, Sequences, FiniteSets, TLC

VARIABLES arq_indice, arq_chunks,          \* the two persisted files
          indice, chunks, embeddings,      \* the attributes of the SistemaRAG
          wpc, wcont, wtop, wout,          \* maintenance thread: position, calls still
                                           \* to make, top-level call and its outcome
          qpc, consulta, top_k,            \* query thread: position and arguments
          buscado, indices,                \* its locals: index searched, labels found
          resultado, contexto,             \* what buscar_contexto and
                                           \* obter_contexto_rag returned
          documento,                       \* the text of the FAQ file
          base,                            \* contents held by the knowledge base
          ingestao, tentativas,            \* what adicionar_faq returned, and the
                                           \* add_content calls it made
          k_busca, k_resultados,           \* what knowledge.search did, what
          k_contexto,                      \* buscar_conhecimento and
                                           \* obter_contexto_formatado returned
          mensagens, sessoes,              \* the two tables of BaseHistorico
          prox_id, relogio,                \* next AUTOINCREMENT id, CURRENT_TIMESTAMP
          h_resultado, h_contexto,         \* what obter_historico and
                                           \* obter_contexto_historico returned
          entrada,                         \* the input of the team's current run
          gpc, prox_hook,                  \* position of the run, next pre-hook
          buscou                           \* the run searched the knowledge base

vars == <<arq_indice, arq_chunks, indice, chunks, embeddings,
          wpc, wcont, wtop, wout,
          qpc, consulta, top_k, buscado, indices, resultado, contexto,
          documento,
          base, ingestao, tentativas, k_busca, k_resultados, k_contexto,
          mensagens, sessoes, prox_id, relogio, h_resultado, h_contexto,
          entrada, gpc, prox_hook, buscou>>

disco == <<arq_indice, arq_chunks>>
instancia == <<indice, chunks, embeddings>>
escritor == <<wpc, wcont, wtop, wout>>
leitor == <<qpc, consulta, top_k, buscado, indices, resultado, contexto>>
\* what lies outside the SistemaRAG and its two threads
conhecimento == <<base, ingestao, tentativas, k_busca, k_resultados, k_contexto>>
\* the other components of the application
historico == <<mensagens, sessoes, prox_id, relogio, h_resultado, h_contexto>>
time == <<entrada, gpc, prox_hook, buscou>>
demais == <<conhecimento, historico, time>>
fora == <<documento, demais>>

(* ---------------------------- bounds ---------------------------------- *)
NumTexts == 2
MaxParagrafos == 2
NumConsultas == 1
MaxTopK == 2
MaxBase == 3
MaxMensagens == 2
MaxRelogio == 1
MaxLimite == 2

(* ------------------------- program constants -------------------------- *)
TopKObter == 3
max_results == 3
MAX_INPUT_CHARS == 1000
\* the threshold 0.75 of ToxicityHFGuardrail, in hundredths
threshold == 75

(* ---------------------------- values ---------------------------------- *)
\* an attribute holding None, or an index / array object with its vectors
None == [nulo |-> TRUE, xb |-> <<>>]
Objeto(xb) == [nulo |-> FALSE, xb |-> xb]

\* a file: missing, partly written (the writer died or is still writing), or complete
Ausente == [estado |-> "ausente", dados |-> <<>>]
Parcial == [estado |-> "parcial", dados |-> <<>>]
Arquivo(dados) == [estado |-> "completo", dados |-> dados]

\* what a call hands back: a list, or an exception
Lista(l) == [erro |-> "", lista |-> l]
IndexError == [erro |-> "IndexError", lista |-> <<>>]
AssertionError == [erro |-> "AssertionError", lista |-> <<>>]

Cabecalho == 0 - 1
\* the line "**Conhecimento relevante:**\n" and the prefix "i. " of an item
CabecalhoConhecimento == 0 - 2
Numero(i) == 0 - (2 + i)
LinhaBranca == 0

Textos == 1..NumTexts
Consultas == 1..NumConsultas
TopKs == (1..MaxTopK) \cup {TopKObter}
\* the top_k a caller may pass: buscar_contexto takes any int
TopKsPassados == TopKs \cup {0}
Paragrafos == 0..(2 * NumTexts)
SeqAte(S, n) == UNION {[1..m -> S] : m \in 0..n}
Documentos == SeqAte(Paragrafos, MaxParagrafos)

(* --------------------------- pure functions --------------------------- *)
\* self.modelo.encode: one vector per text, same order
encode_um(t) == 3 * t + 1
encode(ts) == [i \in 1..Len(ts) |-> encode_um(ts[i])]

\* str.strip of a paragraph
strip(par) == IF par > NumTexts THEN par - NumTexts ELSE par

\* conteudo.split('\n\n'), strip, drop the blank ones
RECURSIVE dividir_chunks(_)
dividir_chunks(doc) ==
    IF doc = <<>> THEN <<>>
    ELSE IF strip(Head(doc)) = 0 THEN dividir_chunks(Tail(doc))
         ELSE <<strip(Head(doc))>> \o dividir_chunks(Tail(doc))

\* squared L2 distance of IndexFlatL2
distancia(a, b) == (a - b) * (a - b)

\* number of index entries ranked before entry p for query vector qv
antes(idx, qv, p) ==
    Cardinality({r \in 1..Len(idx) :
        \/ distancia(idx[r], qv) < distancia(idx[p], qv)
        \/ distancia(idx[r], qv) = distancia(idx[p], qv) /\ r < p})

\* faiss IndexFlatL2.search: the k nearest labels (0-based), nearest first,
\* the slots with no neighbour filled with -1
search(idx, qv, k) ==
    [j \in 1..k |->
        IF j <= Len(idx)
        THEN (CHOOSE p \in 1..Len(idx) : antes(idx, qv, p) = j - 1) - 1
        ELSE -1]

\* Python list indexing with an int: negative indices count from the end
py_index_ok(lst, i) == (i >= 0 /\ i < Len(lst)) \/ (i < 0 /\ -i <= Len(lst))
py_index(lst, i) == IF i >= 0 THEN lst[i + 1] ELSE lst[Len(lst) + i + 1]

\* [self.chunks[i] for i in indices[0]]
chunks_relevantes(lst, ids) ==
    IF \A j \in 1..Len(ids) : py_index_ok(lst, ids[j])
    THEN Lista([j \in 1..Len(ids) |-> py_index(lst, ids[j])])
    ELSE IndexError

\* buscar_contexto as a whole, run alone on index idx and chunk list lst
buscar(idx, lst, q, k) ==
    IF idx.nulo THEN Lista(<<>>)
    ELSE chunks_relevantes(lst, search(idx.xb, encode_um(q), k))

\* faiss.write_index / faiss.read_index: the vector count, then the vectors
write_index(idx) == Arquivo(<<Len(idx.xb)>> \o idx.xb)
read_index(arq) == Objeto([i \in 1..arq.dados[1] |-> arq.dados[i + 1]])

\* json.dump / json.load of the chunk list: the item count, then the items
json_dump(lst) == Arquivo(<<Len(lst)>> \o lst)
\* json_load losing the last item of the list
json_load_sem_ultimo(arq) == [i \in 1..(arq.dados[1] - 1) |-> arq.dados[i + 1]]
json_load(arq) == [i \in 1..arq.dados[1] |-> arq.dados[i + 1]]

\* a string is a sequence of tokens: a chunk text, Cabecalho for the line
\* "**Contexto relevante:**\n", LinhaBranca for "\n\n"; "" is <<>>
RECURSIVE join(_)
join(lst) ==
    IF Len(lst) <= 1 THEN lst
    ELSE <<Head(lst), LinhaBranca>> \o join(Tail(lst))

\* obter_contexto_rag, from the list buscar_contexto returned
formatar_contexto(lst) ==
    IF lst # <<>> THEN <<Cabecalho>> \o join(lst) \o <<LinhaBranca>> ELSE <<>>

\* knowledge.search: the contents nearest to the question, nearest first, at
\* most k of them; every entry of the base carries the metadata adicionar_faq
\* gives it, so the filter on type and category passes them all
knowledge_search(b, q, k) ==
    LET ids == search(encode(b), encode_um(q), IF k < Len(b) THEN k ELSE Len(b))
    IN [j \in 1..Len(ids) |-> b[ids[j] + 1]]

\* the loop of obter_contexto_formatado: "i. content\n\n" for i = i0, i0 + 1, ...
RECURSIVE numerados(_, _)
numerados(rs, i0) ==
    IF rs = <<>> THEN <<>>
    ELSE <<Numero(i0), Head(rs), LinhaBranca>> \o numerados(Tail(rs), i0 + 1)

\* contexto_formatado leaving out the last result
contexto_formatado_sem_ultimo(rs) ==
    IF rs = <<>> THEN <<>>
    ELSE <<CabecalhoConhecimento>> \o numerados(SubSeq(rs, 1, Len(rs) - 1), 1)
\* obter_contexto_formatado, from the list buscar_conhecimento returned
contexto_formatado(rs) ==
    IF rs = <<>> THEN <<>>
    ELSE <<CabecalhoConhecimento>> \o numerados(rs, 1)

\* os.path.exists
existe(arq) == arq.estado # "ausente"

(* ------------------------------ Init ---------------------------------- *)
\* SistemaKnowledgeAgnos.__init__ on a new ./knowledge_db
InitConhecimento ==
    /\ base = <<>>
    /\ ingestao = "none"
    /\ tentativas = 0
    /\ k_busca = "none"
    /\ k_resultados = Lista(<<>>)
    /\ k_contexto = <<>>

\* BaseHistorico.__init__ on a new database file: criar_tabelas
InitHistorico ==
    /\ mensagens = <<>>
    /\ sessoes = <<>>
    /\ prox_id = 1
    /\ relogio = 0
    /\ h_resultado = <<>>
    /\ h_contexto = <<>>

\* an input content: a str or not, its length, its toxicity score in
\* hundredths, and what the two guardrails of the library say of it
Entradas ==
    [str : BOOLEAN,
     len : {0, MAX_INPUT_CHARS, MAX_INPUT_CHARS + 1},
     score : {0, threshold - 1, threshold, 100},
     injecao : BOOLEAN,
     moderada : BOOLEAN]

\* the team as criar_aplicacao_agno leaves it: no run yet
InitTime ==
    /\ entrada = [str |-> TRUE, len |-> 0, score |-> 0,
                  injecao |-> FALSE, moderada |-> FALSE]
    /\ gpc = "idle"
    /\ prox_hook = 1
    /\ buscou = FALSE

InitDemais == InitConhecimento /\ InitHistorico /\ InitTime

InitFora ==
    /\ documento = <<>>
    /\ InitDemais

\* a new process with no files: SistemaRAG.__init__ (lines 27-30)
InitRag ==
    /\ arq_indice = Ausente
    /\ arq_chunks = Ausente
    /\ indice = None
    /\ chunks = <<>>
    /\ embeddings = None
    /\ wpc = "idle"
    /\ wcont = <<>>
    /\ wtop = "none"
    /\ wout = "none"
    /\ qpc = "idle"
    /\ consulta = 0
    /\ top_k = 0
    /\ buscado = None
    /\ indices = <<>>
    /\ resultado = Lista(<<>>)
    /\ contexto = <<>>

Init == InitRag /\ InitFora

(* ----------------------- maintenance thread --------------------------- *)
\* a method is entered by a fresh call (idle) or as the next call of inicializar_rag
Entra(op) == wpc = "idle" \/ wpc = op

\* the method goes on to its statement at pc
Segue(op, pc) ==
    /\ wpc' = pc
    /\ wcont' = wcont
    /\ wtop' = IF wpc = "idle" THEN op ELSE wtop
    /\ wout' = "running"

\* the method returns: inicializar_rag goes on with its next call
RetornaDe(op) ==
    /\ wpc' = IF wcont = <<>> THEN "idle" ELSE Head(wcont)
    /\ wcont' = IF wcont = <<>> THEN <<>> ELSE Tail(wcont)
    /\ wtop' = IF wpc = "idle" THEN op ELSE wtop
    /\ wout' = IF wcont = <<>> THEN "returned" ELSE "running"

\* an exception leaves the method and propagates out of the top-level call
LevantaDe(op) ==
    /\ wpc' = "idle"
    /\ wcont' = <<>>
    /\ wtop' = IF wpc = "idle" THEN op ELSE wtop
    /\ wout' = "raised"

\* lines 39-48, with faq the file found at arquivo_faq
carregar_documentos_de(faq) ==
    /\ Entra("carregar_documentos")
    /\ RetornaDe("carregar_documentos")
    /\ chunks' = IF existe(faq) THEN dividir_chunks(faq.dados) ELSE chunks
    /\ UNCHANGED <<disco, indice, embeddings, leitor>>
    /\ UNCHANGED fora

\* carregar_documentos on whatever file is at the path it is given
carregar_documentos ==
    \E faq \in {Arquivo(d) : d \in Documentos} \cup {Ausente} :
        carregar_documentos_de(faq)

\* lines 54-60
criar_indice ==
    /\ Entra("criar_indice")
    /\ IF chunks = <<>>
       THEN /\ RetornaDe("criar_indice")
            /\ UNCHANGED embeddings
       ELSE /\ Segue("criar_indice", "criar_indice_new")
            /\ embeddings' = Objeto(encode(chunks))
    /\ UNCHANGED <<disco, indice, chunks, leitor>>
    /\ UNCHANGED fora

\* lines 63-64: self.indice = faiss.IndexFlatL2(dimensao)
criar_indice_new ==
    /\ wpc = "criar_indice_new"
    /\ wpc' = "criar_indice_add"
    /\ indice' = Objeto(<<>>)
    /\ UNCHANGED <<disco, chunks, embeddings, wcont, wtop, wout, leitor>>
    /\ UNCHANGED fora

\* line 65: self.indice.add(self.embeddings)
criar_indice_add ==
    /\ wpc = "criar_indice_add"
    /\ RetornaDe("criar_indice")
    /\ indice' = Objeto(indice.xb \o embeddings.xb)
    /\ UNCHANGED <<disco, chunks, embeddings, leitor>>
    /\ UNCHANGED fora

\* lines 101-102: write_index opens the index file for writing
salvar_indice ==
    /\ Entra("salvar_indice")
    /\ IF indice.nulo
       THEN /\ RetornaDe("salvar_indice")
            /\ UNCHANGED arq_indice
       ELSE /\ Segue("salvar_indice", "salvar_indice_write")
            /\ arq_indice' = Parcial
    /\ UNCHANGED <<arq_chunks, instancia, leitor>>
    /\ UNCHANGED fora

\* line 102: write_index has written the whole index
salvar_indice_write ==
    /\ wpc = "salvar_indice_write"
    /\ wpc' = "salvar_indice_open"
    /\ arq_indice' = write_index(indice)
    /\ UNCHANGED <<arq_chunks, instancia, wcont, wtop, wout, leitor>>
    /\ UNCHANGED fora

\* line 103: open(caminho_chunks, 'w') truncates the manifest
salvar_indice_open ==
    /\ wpc = "salvar_indice_open"
    /\ wpc' = "salvar_indice_dump"
    /\ arq_chunks' = Parcial
    /\ UNCHANGED <<arq_indice, instancia, wcont, wtop, wout, leitor>>
    /\ UNCHANGED fora

\* lines 104-106: json.dump, the file is closed
salvar_indice_dump ==
    /\ wpc = "salvar_indice_dump"
    /\ RetornaDe("salvar_indice")
    /\ arq_chunks' = json_dump(chunks)
    /\ UNCHANGED <<arq_indice, instancia, leitor>>
    /\ UNCHANGED fora

\* lines 116-117 and 122-123: a partly written index file makes read_index raise
carregar_indice ==
    /\ Entra("carregar_indice")
    /\ IF existe(arq_indice) /\ existe(arq_chunks)
       THEN IF arq_indice.estado = "parcial"
            THEN /\ LevantaDe("carregar_indice")
                 /\ UNCHANGED indice
            ELSE /\ Segue("carregar_indice", "carregar_indice_json")
                 /\ indice' = read_index(arq_indice)
       ELSE /\ RetornaDe("carregar_indice")
            /\ UNCHANGED indice
    /\ UNCHANGED <<disco, chunks, embeddings, leitor>>
    /\ UNCHANGED fora

\* lines 118-121: a partly written manifest makes json.load raise
carregar_indice_json ==
    /\ wpc = "carregar_indice_json"
    /\ IF arq_chunks.estado = "parcial"
       THEN /\ LevantaDe("carregar_indice")
            /\ UNCHANGED chunks
       ELSE /\ RetornaDe("carregar_indice")
            /\ chunks' = json_load(arq_chunks)
    /\ UNCHANGED <<disco, indice, embeddings, leitor>>
    /\ UNCHANGED fora

\* lines 138-145: the calls inicializar_rag makes, in order
inicializar_rag ==
    /\ wpc = "idle"
    /\ wtop' = "inicializar_rag"
    /\ wout' = "running"
    /\ IF existe(arq_indice) /\ existe(arq_chunks)
       THEN /\ wpc' = "carregar_indice"
            /\ wcont' = <<>>
       ELSE /\ wpc' = "carregar_documentos"
            /\ wcont' = <<"criar_indice", "salvar_indice">>
    /\ UNCHANGED <<disco, instancia, leitor>>
    /\ UNCHANGED fora

(* --------------------------- query thread ----------------------------- *)
\* lines 80-84; obter_contexto_rag (line 159) is the call with top_k = 3
buscar_contexto ==
    /\ qpc \in {"idle", "done"}
    /\ \E q \in Consultas, k \in TopKsPassados :
        /\ consulta' = q
        /\ top_k' = k
    /\ buscado' = None
    /\ indices' = <<>>
    /\ resultado' = Lista(<<>>)
    /\ contexto' = <<>>
    /\ qpc' = IF indice.nulo THEN "done" ELSE "search"
    /\ UNCHANGED <<disco, instancia, escritor>>
    /\ UNCHANGED fora

\* line 87: self.indice.search(consulta_embedding, top_k)
buscar_contexto_search ==
    /\ qpc = "search"
    /\ top_k > 0
    /\ qpc' = "collect"
    /\ buscado' = indice
    /\ indices' = search(indice.xb, encode_um(consulta), top_k)
    /\ UNCHANGED <<disco, instancia, escritor, consulta, top_k, resultado, contexto>>
    /\ UNCHANGED fora

\* line 87 with top_k = 0: the faiss build decides, either its search asserts
\* k > 0 and the AssertionError leaves buscar_contexto, or it returns no labels
buscar_contexto_search_k0 ==
    /\ qpc = "search"
    /\ top_k <= 0
    /\ \/ /\ qpc' = "done"
          /\ resultado' = AssertionError
          /\ UNCHANGED <<buscado, indices>>
       \/ /\ qpc' = "collect"
          /\ buscado' = indice
          /\ indices' = <<>>
          /\ UNCHANGED resultado
    /\ UNCHANGED <<disco, instancia, escritor, consulta, top_k, contexto>>
    /\ UNCHANGED fora

\* lines 90-91, then lines 161-165 of obter_contexto_rag; the locals end with the call
buscar_contexto_chunks ==
    /\ qpc = "collect"
    /\ qpc' = "done"
    /\ resultado' = chunks_relevantes(chunks, indices)
    /\ contexto' = IF top_k = TopKObter THEN formatar_contexto(resultado'.lista) ELSE <<>>
    /\ buscado' = None
    /\ indices' = <<>>
    /\ UNCHANGED <<disco, instancia, escritor, consulta, top_k>>
    /\ UNCHANGED fora

(* --------------------------- environment ------------------------------ *)
\* the process dies and is started again: a new SistemaRAG (lines 27-30, 126)
Morre ==
    /\ indice' = None
    /\ chunks' = <<>>
    /\ embeddings' = None
    /\ wpc' = "idle"
    /\ wcont' = <<>>
    /\ wtop' = "none"
    /\ wout' = "none"
    /\ qpc' = "idle"
    /\ consulta' = 0
    /\ top_k' = 0
    /\ buscado' = None
    /\ indices' = <<>>
    /\ resultado' = Lista(<<>>)
    /\ contexto' = <<>>
    /\ UNCHANGED disco
    /\ UNCHANGED fora

Manutencao ==
    \/ carregar_documentos
    \/ criar_indice
    \/ criar_indice_new
    \/ criar_indice_add
    \/ salvar_indice
    \/ salvar_indice_write
    \/ salvar_indice_open
    \/ salvar_indice_dump
    \/ carregar_indice
    \/ carregar_indice_json
    \/ inicializar_rag

Consulta ==
    \/ buscar_contexto
    \/ buscar_contexto_search
    \/ buscar_contexto_search_k0
    \/ buscar_contexto_chunks

Next == Manutencao \/ Morre

Spec == Init /\ [][Next]_vars

NextConc == Manutencao \/ Consulta

SpecConc == Init /\ [][NextConc]_vars

\* a built instance, as criar_indice leaves it, whose chunk list may have
\* been replaced since by carregar_documentos; nothing saved yet
ListasDeChunks == {dividir_chunks(d) : d \in Documentos}

InitRT ==
    /\ \E c \in ListasDeChunks \ {<<>>} :
        /\ indice = Objeto(encode(c))
        /\ embeddings = Objeto(encode(c))
        /\ chunks \in ListasDeChunks
        /\ wtop = IF chunks = c THEN "criar_indice" ELSE "carregar_documentos"
    /\ arq_indice = Ausente
    /\ arq_chunks = Ausente
    /\ wpc = "idle"
    /\ wcont = <<>>
    /\ wout = "returned"
    /\ qpc = "idle"
    /\ consulta = 0
    /\ top_k = 0
    /\ buscado = None
    /\ indices = <<>>
    /\ resultado = Lista(<<>>)
    /\ contexto = <<>>
    /\ InitFora

NextRT ==
    \/ salvar_indice
    \/ salvar_indice_write
    \/ salvar_indice_open
    \/ salvar_indice_dump
    \/ carregar_indice
    \/ carregar_indice_json
    \/ Morre

SpecRT == InitRT /\ [][NextRT]_vars

(* --------------------------- FAQ chunking ----------------------------- *)
\* the FAQ file is written anew
EditaFaq ==
    /\ documento' \in Documentos \ {documento}
    /\ UNCHANGED <<disco, instancia, escritor, leitor, demais>>

\* carregar_documentos on the FAQ file as it is now
carregar_documento_atual == carregar_documentos_de(Arquivo(documento))

InitChunk ==
    /\ InitRag
    /\ documento \in Documentos
    /\ InitDemais

NextChunk == EditaFaq \/ carregar_documento_atual

SpecChunk == InitChunk /\ [][NextChunk]_vars

(* ------------------------- agno knowledge base ------------------------ *)
rag == <<disco, instancia, escritor, leitor>>
Bases == SeqAte(Textos, MaxBase)

\* adicionar_faq: one call of knowledge.add_content, which embeds and stores
\* the chunks the reader cuts, or raises
adicionar_faq ==
    /\ \E faq \in {Ausente, Arquivo(documento)} :
        IF ~existe(faq)
        THEN /\ ingestao' = "False"
             /\ tentativas' = 0
             /\ UNCHANGED base
        ELSE /\ tentativas' = 1
             /\ \/ /\ \E cs \in Bases \ {<<>>} :
                        /\ Len(base) + Len(cs) <= MaxBase
                        /\ base' = base \o cs
                     /\ ingestao' = "True"
                \/ /\ ingestao' = "False"
                   /\ UNCHANGED base
    /\ UNCHANGED <<k_busca, k_resultados, k_contexto>>
    /\ UNCHANGED <<rag, documento, historico, time>>

\* obter_contexto_formatado with the buscar_conhecimento it calls: the search
\* returns its results, or raises and buscar_conhecimento returns []
obter_contexto_formatado ==
    /\ \E q \in Consultas :
        \/ /\ k_busca' = "ok"
           /\ k_resultados' = Lista(knowledge_search(base, q, max_results))
        \/ /\ k_busca' = "erro"
           /\ k_resultados' = Lista(<<>>)
    /\ k_contexto' = contexto_formatado(k_resultados'.lista)
    /\ UNCHANGED <<base, ingestao, tentativas>>
    /\ UNCHANGED <<rag, documento, historico, time>>

NextKnow == adicionar_faq \/ obter_contexto_formatado

SpecKnow == Init /\ [][NextKnow]_vars

\* obter_contexto_rag: buscar_contexto called with top_k = 3
obter_contexto_rag ==
    /\ buscar_contexto
    /\ top_k' = TopKObter

\* both context paths: a SistemaRAG new or as criar_indice leaves it, and a
\* knowledge base as calls of adicionar_faq leave it
InitCtx ==
    /\ InitRag \/ (\E c \in ListasDeChunks \ {<<>>} :
                     /\ arq_indice = Ausente
                     /\ arq_chunks = Ausente
                     /\ indice = Objeto(encode(c))
                     /\ embeddings = Objeto(encode(c))
                     /\ chunks = c
                     /\ wpc = "idle"
                     /\ wcont = <<>>
                     /\ wtop = "criar_indice"
                     /\ wout = "returned"
                     /\ qpc = "idle"
                     /\ consulta = 0
                     /\ top_k = 0
                     /\ buscado = None
                     /\ indices = <<>>
                     /\ resultado = Lista(<<>>)
                     /\ contexto = <<>>)
    /\ documento = <<>>
    /\ base \in Bases
    /\ ingestao = "none"
    /\ tentativas = 0
    /\ k_busca = "none"
    /\ k_resultados = Lista(<<>>)
    /\ k_contexto = <<>>
    /\ InitHistorico
    /\ InitTime

NextCtx ==
    \/ obter_contexto_rag
    \/ buscar_contexto_search
    \/ buscar_contexto_chunks
    \/ obter_contexto_formatado

SpecCtx == InitCtx /\ [][NextCtx]_vars

(* ------------------------ conversation history ------------------------ *)
Sessoes == {"s1", "s2"}
Agentes == {"Triagem", "Especialista"}
Tipos == {"user", "assistant"}
\* limpar_historico called with no session_id
TodasSessoes == "None"
Limites == 1..MaxLimite

\* CURRENT_TIMESTAMP moves on by a second
Tique ==
    /\ relogio < MaxRelogio
    /\ relogio' = relogio + 1
    /\ UNCHANGED <<mensagens, sessoes, prox_id, h_resultado, h_contexto>>
    /\ UNCHANGED <<rag, documento, conhecimento, time>>

\* INSERT INTO sessoes with no OR IGNORE and no UNIQUE on session_id
insert_sessao(tab, s, a) == Append(tab, [session_id |-> s, agente_nome |-> a])
\* INSERT OR IGNORE INTO sessoes (session_id, agente_nome): session_id is UNIQUE
insert_or_ignore(tab, s, a) ==
    IF \E i \in 1..Len(tab) : tab[i].session_id = s
    THEN tab
    ELSE Append(tab, [session_id |-> s, agente_nome |-> a])

\* adicionar_mensagem: INSERT OR IGNORE INTO sessoes, INSERT INTO mensagens,
\* in one transaction; data_ultima_atualizacao is not modelled
adicionar_mensagem ==
    /\ prox_id <= MaxMensagens
    /\ \E s \in Sessoes, a \in Agentes, t \in Tipos, c \in Textos :
        /\ sessoes' = insert_or_ignore(sessoes, s, a)
        /\ mensagens' = Append(mensagens,
                               [id |-> prox_id, session_id |-> s, agente_nome |-> a,
                                tipo |-> t, conteudo |-> c, timestamp |-> relogio])
    /\ prox_id' = prox_id + 1
    /\ UNCHANGED <<relogio, h_resultado, h_contexto>>
    /\ UNCHANGED <<rag, documento, conhecimento, time>>

\* apagar keeping the rows of session s and deleting the others
apagar_as_outras(tab, s) ==
    IF s = TodasSessoes THEN <<>>
    ELSE LET DaSessao(l) == l.session_id = s IN SelectSeq(tab, DaSessao)
\* DELETE FROM tab WHERE session_id = s, or DELETE FROM tab
apagar(tab, s) ==
    IF s = TodasSessoes THEN <<>>
    ELSE LET DeOutra(l) == l.session_id # s IN SelectSeq(tab, DeOutra)

limpar_historico_de(s) ==
    /\ mensagens' = apagar(mensagens, s)
    /\ sessoes' = apagar(sessoes, s)
    /\ UNCHANGED <<prox_id, relogio, h_resultado, h_contexto>>
    /\ UNCHANGED <<rag, documento, conhecimento, time>>

limpar_historico == \E s \in Sessoes \cup {TodasSessoes} : limpar_historico_de(s)

\* the orders ORDER BY timestamp DESC may give the rows: rows of one
\* timestamp come in whatever order the engine picks
ordenacoes(rows) ==
    LET n == Len(rows)
        Perms == {f \in [1..n -> 1..n] : \A i, j \in 1..n : i # j => f[i] # f[j]}
    IN {[i \in 1..n |-> rows[f[i]]] : f \in
            {g \in Perms : \A i, j \in 1..n :
                i < j => rows[g[i]].timestamp >= rows[g[j]].timestamp}}

reversed(l) == [i \in 1..Len(l) |-> l[Len(l) + 1 - i]]

\* the dict obter_historico makes of a row
dict(l) == [tipo |-> l.tipo, conteudo |-> l.conteudo, timestamp |-> l.timestamp]

\* the lists obter_historico may return
historicos(tab, s, a, n) ==
    LET Passa(l) == l.session_id = s /\ l.agente_nome = a
        rows == SelectSeq(tab, Passa)
        m == IF n < Len(rows) THEN n ELSE Len(rows)
    IN {reversed([i \in 1..m |-> dict(o[i])]) : o \in ordenacoes(rows)}

\* a string of obter_contexto_historico is a sequence of lines: the header,
\* one line for a message, the empty line that ends it
LinhaCabecalho == [quem |-> "**Histórico da conversa:**", conteudo |-> 0]
LinhaVazia == [quem |-> "", conteudo |-> 0]
linha(msg, a) ==
    [quem |-> IF msg.tipo = "user" THEN "Usuário" ELSE a, conteudo |-> msg.conteudo]

contexto_historico(hist, a) ==
    IF hist = <<>> THEN <<>>
    ELSE <<LinhaCabecalho>> \o [i \in 1..Len(hist) |-> linha(hist[i], a)]
            \o <<LinhaVazia>>

obter_historico_de(s, a, n) ==
    /\ h_resultado' \in historicos(mensagens, s, a, n)
    /\ UNCHANGED <<mensagens, sessoes, prox_id, relogio, h_contexto>>
    /\ UNCHANGED <<rag, documento, conhecimento, time>>

obter_historico ==
    \E s \in Sessoes, a \in Agentes, n \in Limites : obter_historico_de(s, a, n)

\* obter_contexto_historico with the obter_historico it calls
obter_contexto_historico_de(s, a, n) ==
    /\ h_resultado' \in historicos(mensagens, s, a, n)
    /\ h_contexto' = contexto_historico(h_resultado', a)
    /\ UNCHANGED <<mensagens, sessoes, prox_id, relogio>>
    /\ UNCHANGED <<rag, documento, conhecimento, time>>

obter_contexto_historico ==
    \E s \in Sessoes, a \in Agentes, n \in Limites : obter_contexto_historico_de(s, a, n)

NextHist == adicionar_mensagem \/ limpar_historico \/ Tique

SpecHist == Init /\ [][NextHist]_vars

NextHistQ == NextHist \/ obter_historico \/ obter_contexto_historico

SpecHistQ == Init /\ [][NextHistQ]_vars

(* ------------------------- the team's guardrails ---------------------- *)
\* the team's pre_hooks without SpamAndLengthGuardrail
pre_hooks_sem_spam ==
    <<"PromptInjectionGuardrail", "OpenAIModerationGuardrail", "ToxicityHFGuardrail">>
pre_hooks ==
    <<"PromptInjectionGuardrail", "OpenAIModerationGuardrail", "ToxicityHFGuardrail",
      "SpamAndLengthGuardrail">>

\* run_input.input_content if isinstance(run_input.input_content, str) else ""
content_len(e) == IF e.str THEN e.len ELSE 0

\* SpamAndLengthGuardrail._check raises InputCheckError
spam_length_check(e) == content_len(e) # 0 /\ content_len(e) > MAX_INPUT_CHARS

\* ToxicityHFGuardrail._check raises InputCheckError
toxicity_check(e) == content_len(e) # 0 /\ e.score >= threshold

\* the check of guardrail g raises InputCheckError on input e
rejeita(g, e) ==
    CASE g = "PromptInjectionGuardrail" -> e.injecao
      [] g = "OpenAIModerationGuardrail" -> e.moderada
      [] g = "ToxicityHFGuardrail" -> toxicity_check(e)
      [] g = "SpamAndLengthGuardrail" -> spam_length_check(e)

\* a request reaches the team
receber ==
    /\ gpc \in {"idle", "rejected", "done"}
    /\ entrada' \in Entradas
    /\ gpc' = IF pre_hooks = <<>> THEN "run" ELSE "pre_hooks"
    /\ prox_hook' = 1
    /\ buscou' = FALSE
    /\ UNCHANGED <<rag, documento, conhecimento, historico>>

\* the next pre-hook checks the input: InputCheckError ends the run
pre_hook ==
    /\ gpc = "pre_hooks"
    /\ IF rejeita(pre_hooks[prox_hook], entrada)
       THEN /\ gpc' = "rejected"
            /\ UNCHANGED prox_hook
       ELSE /\ prox_hook' = prox_hook + 1
            /\ gpc' = IF prox_hook = Len(pre_hooks) THEN "run" ELSE "pre_hooks"
    /\ UNCHANGED <<entrada, buscou>>
    /\ UNCHANGED <<rag, documento, conhecimento, historico>>

\* the run itself: the Especialista, with search_knowledge=True, searches the
\* knowledge base with the input or does not
executar ==
    /\ gpc = "run"
    /\ buscou' \in BOOLEAN
    /\ gpc' = "done"
    /\ UNCHANGED <<entrada, prox_hook>>
    /\ UNCHANGED <<rag, documento, conhecimento, historico>>

NextTime == receber \/ pre_hook \/ executar

SpecTime == Init /\ [][NextTime]_vars

(* ------------------------------ claims -------------------------------- *)
DentroDeReconstrucao == wpc \in {"criar_indice_new", "criar_indice_add", "carregar_indice_json"}

\* C1: a query that runs while criar_indice or carregar_indice is under way
\* returns chunks of the snapshot it searched: when it picks the chunk texts
\* for the hits of a filled index, the chunk list it reads is the one the
\* searched index was built from.
C1_UmSoSnapshot ==
    [][(qpc = "collect" /\ qpc' = "done" /\ DentroDeReconstrucao /\ buscado.xb # <<>>)
         => buscado.xb = encode(chunks)]_vars

\* C2: the index a query searches is never one that is created but not yet
\* filled (criar_indice between lines 64 and 65), nor one that is live but
\* not yet written by salvar_indice.
C2_TrocaDepoisDePersistir ==
    [][(qpc = "search" /\ qpc' = "collect")
         => /\ wpc # "criar_indice_add"
            /\ arq_indice = write_index(indice)
            /\ arq_chunks.estado = "completo"]_vars

\* C3: salvar_indice is atomic: every step of a save, after which the process
\* may die, either leaves both files as they were or leaves the whole new pair.
C3_SalvarAtomico ==
    [][(salvar_indice \/ salvar_indice_write \/ salvar_indice_open \/ salvar_indice_dump)
         => \/ disco' = disco
            \/ /\ arq_indice' = write_index(indice)
               /\ arq_chunks' = json_dump(chunks)]_vars

\* C4: between calls, whenever there is an index, entry i of the index is the
\* embedding of chunks[i] and the counts agree.
C4_Manifesto1a1 ==
    (wpc = "idle" /\ ~indice.nulo) => indice.xb = encode(chunks)

\* C5: carregar_indice replaces indice and chunks together: once it has
\* replaced the index it also replaces the chunk list by the persisted one
\* and does not end in an exception (the call that replaces nothing leaves
\* both alone by lines 122-123).
C5_CargaEmPar ==
    [][(wpc = "carregar_indice_json" /\ wpc' # wpc /\ ~Morre)
         => /\ wout' # "raised"
            /\ chunks' = json_load(arq_chunks)]_vars

\* C6: a load that completes normally had both files present and as many
\* vectors in the index file as chunks in the manifest; every other load ends
\* in an error.
C6_CargaFalha ==
    (wpc = "idle" /\ wtop = "carregar_indice" /\ wout = "returned")
        => /\ arq_indice.estado = "completo"
           /\ arq_chunks.estado = "completo"
           /\ arq_indice.dados[1] = arq_chunks.dados[1]

\* C7: inicializar_rag completes normally only with an index whose vector
\* count matches the chunk list: loaded from consistent files or rebuilt from
\* the source; with neither it ends in a failure.
C7_PartidaComIndice ==
    (wpc = "idle" /\ wtop = "inicializar_rag" /\ wout = "returned")
        => /\ ~indice.nulo
           /\ Len(indice.xb) = Len(chunks)

C9_NoMaximoTopKOrdenado ==
    (qpc = "done" /\ resultado.erro = "")
        => /\ Len(resultado.lista) <= top_k
           /\ \A i, j \in 1..Len(resultado.lista) :
                i < j => distancia(encode_um(resultado.lista[i]), encode_um(consulta))
                            <= distancia(encode_um(resultado.lista[j]), encode_um(consulta))

\* C10: a query that finds no index, or searches an index of zero entries,
\* returns the empty list without raising, and obter_contexto_rag then
\* returns the empty string.
C10_IndiceVazio ==
    [][/\ (buscar_contexto /\ indice.nulo)
            => (qpc' = "done" /\ resultado' = Lista(<<>>) /\ contexto' = <<>>)
       /\ (buscar_contexto_chunks /\ buscado.xb = <<>>)
            => (resultado' = Lista(<<>>) /\ contexto' = <<>>)]_vars

\* C11: a query with top_k <= 0 is rejected with InvalidQueryError before
\* anything else: it never gets past the embedding call of line 84 to the
\* search of line 87 or the chunk lookup of line 90, and what it returns is
\* the error.
C11_TopKInvalidoRejeitado ==
    (top_k <= 0 /\ qpc # "idle")
        => /\ qpc \notin {"search", "collect"}
           /\ resultado.erro = "InvalidQueryError"

\* labels of the neighbours the search found, without the -1 of the empty slots
RECURSIVE achados(_)
achados(ids) ==
    IF ids = <<>> THEN <<>>
    ELSE IF Head(ids) >= 0 THEN <<Head(ids)>> \o achados(Tail(ids))
         ELSE achados(Tail(ids))

\* C20: what buscar_contexto returns is the chunk at each label the index
\* found, in order, and nothing for the slots the index filled with -1.
C20_SoVizinhosAchados ==
    [][buscar_contexto_chunks
         => resultado' = chunks_relevantes(chunks, achados(indices))]_vars

\* C16: every document carregar_documentos loads gives at least one chunk,
\* and the chunks joined in order by the paragraph separator (this chunker
\* has no overlap to remove) are the document again.
C16_ChunksReconstroem ==
    [][carregar_documento_atual
         => /\ Len(chunks') >= 1
            /\ chunks' = documento]_vars

\* C12: a query whose search backend failed hands its caller an outcome that
\* differs from that of a successful query that matched nothing, which is
\* the empty list from buscar_conhecimento and the empty string from
\* obter_contexto_formatado.
C12_FalhaDistinta ==
    k_busca = "erro"
        => /\ k_resultados # Lista(<<>>)
           /\ k_contexto # <<>>

contem(str, t) == \E i \in 1..Len(str) : str[i] = t

RECURSIVE escolhidos(_, _, _)
escolhidos(rs, S, i) ==
    IF i > Len(rs) THEN <<>>
    ELSE (IF i \in S THEN <<rs[i]>> ELSE <<>>) \o escolhidos(rs, S, i + 1)

\* ctx is the header and then results of rs, whole, numbered from 1, in rank order
listado(cab, rs, ctx) ==
    \E S \in SUBSET (1..Len(rs)) : ctx = <<cab>> \o numerados(escolhidos(rs, S, 1), 1)

\* C14: a non-empty context, on either path, lists results in rank order, each
\* whole, numbered and delimited, leaving out only whole results (those that
\* would overflow the maximum length).
C14_NumeradoEInteiro ==
    /\ (k_busca # "none" /\ k_contexto # <<>>)
        => listado(CabecalhoConhecimento, k_resultados.lista, k_contexto)
    /\ (qpc = "done" /\ top_k = TopKObter /\ contexto # <<>>)
        => listado(Cabecalho, resultado.lista, contexto)

\* C15: an ingestion that found its file is reported as failed only after the
\* failing call was tried again: one failure of the provider, which would
\* answer the next call, does not fail the ingestion.
C15_FalhaSoDepoisDeRetentar ==
    (ingestao = "False" /\ tentativas > 0) => tentativas > 1

presente(tab, l) == \E j \in 1..Len(tab) : tab[j] = l

ultimas(tab, s, a, n) ==
    LET Passa(l) == l.session_id = s /\ l.agente_nome = a
        rows == SelectSeq(tab, Passa)
        m == IF n < Len(rows) THEN n ELSE Len(rows)
    IN [i \in 1..m |-> dict(rows[Len(rows) - m + i])]

\* C18: obter_historico returns the last min(N, count) messages of the session
\* and the agent in the order they were added, also when timestamps are
\* equal, and obter_contexto_historico renders those in that order, or
\* returns the empty string when there are none.
C18_UltimasEmOrdem ==
    [][\A s \in Sessoes, a \in Agentes, n \in Limites :
          /\ obter_historico_de(s, a, n)
                => h_resultado' = ultimas(mensagens, s, a, n)
          /\ obter_contexto_historico_de(s, a, n)
                => /\ h_resultado' = ultimas(mensagens, s, a, n)
                   /\ h_contexto' = contexto_historico(ultimas(mensagens, s, a, n), a)]_vars

\* C19: the knowledge base is searched with an input only after the four
\* guardrails of the team have checked it and none has rejected it; a run
\* that a guardrail rejected has made no search.
C19_GuardrailsAntesDaBusca ==
    /\ buscou
        => /\ gpc = "done"
           /\ ~entrada.injecao
           /\ ~entrada.moderada
           /\ ~(content_len(entrada) # 0 /\ entrada.score >= threshold)
           /\ ~(content_len(entrada) > MAX_INPUT_CHARS)
    /\ gpc = "rejected" => ~buscou

\* SpamAndLengthGuardrail, the last pre-hook, has rejected an input that the
\* three before it let through
C19_Witness ==
    /\ gpc = "rejected"
    /\ prox_hook = Len(pre_hooks)
    /\ content_len(entrada) > MAX_INPUT_CHARS
    /\ ~buscou

\* C21: after any sequence of adicionar_mensagem and limpar_historico calls,
\* every row of mensagens has a session_id that has a row in sessoes, and
\* sessoes has one row at most for a session_id.
C21_SessoesIntegras ==
    /\ \A i \in 1..Len(mensagens) :
          \E j \in 1..Len(sessoes) : sessoes[j].session_id = mensagens[i].session_id
    /\ \A i, j \in 1..Len(sessoes) :
          sessoes[i].session_id = sessoes[j].session_id => i = j

\* limpar_historico has deleted one session and the rows of another are left
C21_Witness ==
    /\ Len(mensagens) >= 1
    /\ Len(sessoes) = 1
    /\ prox_id > Len(mensagens) + 1

TypeOK ==
    /\ wpc \in {"idle", "carregar_documentos", "criar_indice", "criar_indice_new",
                "criar_indice_add", "salvar_indice", "salvar_indice_write",
                "salvar_indice_open", "salvar_indice_dump", "carregar_indice",
                "carregar_indice_json"}
    /\ qpc \in {"idle", "search", "collect", "done"}
    /\ indice.nulo \in BOOLEAN

====
